---- MODULE Spec2Model ----
(***************************************************************************)
(* Model of src/main.py: a Dealership holding a list of Cars, Buyers with  *)
(* a balance, and threads running simulate_purchase -> Dealership.sell_car *)
(* -> Buyer.decrease_balance -> Contract.  Every bytecode-level step that  *)
(* another thread can observe is one action.                               *)
(***************************************************************************)
EXTENDS Integers, Sequences, FiniteSets

\* ---- bounds -------------------------------------------------------------
MaxThreads == 2
MaxCars    == 2
MaxBuyers  == 2
MaxPrice   == 2
MaxBal     == 2

MaxMade    == 2

Threads   == 1..MaxThreads
Cars      == 1..MaxCars
Buyers    == 1..MaxBuyers
Dealers   == {1, 2}
Selectors == (0 - MaxCars)..MaxCars
Prices    == 0..MaxPrice
Balances  == 0..MaxBal
Amounts   == 0..(MaxBal + 1)

NoThread == 0
NoSnap   == [cars |-> <<>>, balance |-> <<>>, contracts |-> <<>>]
NoSeen   == [cars |-> <<>>, stale |-> {}]
NoIter   == [pos |-> 0, min |-> 0, snap |-> <<>>, out |-> <<>>]

VARIABLES
  cars,       \* Dealership._cars, per dealership: sequence of Car ids
  dlock,      \* Dealership._lock, per dealership: holder or NoThread
  price,      \* Car._price
  balance,    \* Buyer._balance
  block,      \* Buyer._lock: holder or NoThread
  contracts,  \* every Contract constructed so far, in construction order
  nextId,     \* Contract._ids
  pc,         \* per thread: position in simulate_purchase / sell_car
  via,        \* per thread: "sell" (sell_car), "debit" (decrease_balance called directly),
              \* "set" (balance setter), "add" (add_car), "iter" (__iter__), "gen" (cars_by_price)
  dealer,     \* per thread: the Dealership of the call (self)
  index,      \* per thread: argument index
  buyer,      \* per thread: argument buyer
  car,        \* per thread: local car (0 while unbound)
  amount,     \* per thread: argument amount of decrease_balance
  tmp,        \* per thread: value of self._balance loaded by "-="
  result,     \* per thread: outcome of the call
  seen,       \* history: inventory contents and stale selectors when the call was made
  stale,      \* history: the selectors successful sales have used so far
  snap,       \* history: shared state when the call got the dealership lock
  cars0,      \* history: the inventories after construction
  bal0,       \* history: balances after construction
  ret,        \* per thread: id of the Contract sell_car is returning (0: none)
  returned,   \* history: the Contracts returned so far, in order of return
  prior,      \* history: per thread, the threads whose call was over when it called
  made,       \* the objects the constructors have built, in order
  it          \* per thread: list iterator of __iter__ / cars_by_price

vars == <<cars, dlock, price, balance, block, contracts, nextId, pc, via,
          dealer, index, buyer, car, amount, tmp, result, seen, stale,
          snap, cars0, bal0, ret, returned, prior, made, it>>

shared == <<cars, dlock, price, balance, block, contracts, nextId>>
hist0  == <<cars0, bal0, stale>>
ext    == <<ret, returned, prior, made, it>>

\* ---- helpers ------------------------------------------------------------

\* an index past the end clamped to the last element instead of IndexError
ResolveClamped(i, n) ==
  IF 0 <= i /\ i < n THEN i + 1
  ELSE IF i < 0 /\ 0 - n <= i THEN n + i + 1
  ELSE IF i >= n /\ n > 0 THEN n
  ELSE 0

\* list[index] of Python: position 1..n of the element, 0 for IndexError
Resolve(i, n) ==
  IF 0 <= i /\ i < n THEN i + 1
  ELSE IF i < 0 /\ 0 - n <= i THEN n + i + 1
  ELSE 0

\* list.pop(index) applied to a resolved position
RemoveAt(s, p) == SubSeq(s, 1, p - 1) \o SubSeq(s, p + 1, Len(s))

\* a lock that never makes anybody wait
LockNeverHeld(l) == TRUE

\* threading.Lock: acquire proceeds only when nobody holds the lock
LockFree(l) == l = NoThread

\* sell_car's own funds check
Affordable(bal, p) == bal >= p

\* a check that lets a debit of one more than the balance through
DebitFailsOffByOne(a, bal) == a > bal + 1

\* a check that refuses a debit of exactly the balance
DebitFailsNonStrict(a, bal) == a >= bal

\* decrease_balance's check
DebitFails(a, bal) == a > bal

\* a debit that stores the balance back unchanged
NewBalanceKept(bal, a) == bal

\* the value stored by "self._balance -= amount"
NewBalance(bal, a) == bal - a

Range(s) == {s[k] : k \in 1..Len(s)}

\* the first k cars in insertion order
FirstCars(k) == [j \in 1..k |-> j]

\* threads are numbered in the order in which they are started
Started(t) == \A u \in Threads : u < t => pc[u] # "idle"

\* ---- initial state -------------------------------------------------------
\* One dealership (1) stocked with distinct cars, as __main__ builds it;
\* dealership 2 exists but is empty.
InitRest ==
  /\ dlock = [d \in Dealers |-> NoThread]
  /\ price \in [Cars -> Prices]
  /\ balance \in [Buyers -> Balances]
  /\ block = [b \in Buyers |-> NoThread]
  /\ contracts = <<>>
  /\ nextId = 1
  /\ pc = [t \in Threads |-> "idle"]
  /\ via = [t \in Threads |-> "none"]
  /\ dealer = [t \in Threads |-> 1]
  /\ index = [t \in Threads |-> 0]
  /\ buyer = [t \in Threads |-> 1]
  /\ car = [t \in Threads |-> 0]
  /\ amount = [t \in Threads |-> 0]
  /\ tmp = [t \in Threads |-> 0]
  /\ result = [t \in Threads |-> "none"]
  /\ seen = [t \in Threads |-> NoSeen]
  /\ stale = {}
  /\ snap = [t \in Threads |-> NoSnap]
  /\ cars0 = cars
  /\ bal0 = balance
  /\ ret = [t \in Threads |-> 0]
  /\ returned = <<>>
  /\ prior = [t \in Threads |-> {}]
  /\ made = <<>>
  /\ it = [t \in Threads |-> NoIter]

Init ==
  /\ \E k \in 0..MaxCars : cars = [d \in Dealers |-> IF d = 1 THEN FirstCars(k) ELSE <<>>]
  /\ InitRest

\* Two dealerships: the first k cars stand in dealership 1, the next ones,
\* up to car m, in dealership 2.
InitTwo ==
  /\ \E m \in 0..MaxCars : \E k \in 0..m :
       cars = [d \in Dealers |->
                 IF d = 1 THEN FirstCars(k) ELSE [j \in 1..(m - k) |-> k + j]]
  /\ InitRest

\* the threads whose call has returned or raised
Over == {u \in Threads : pc[u] = "done"}

\* ---- simulate_purchase / sell_car ---------------------------------------

\* simulate_purchase(dealership, car_index, buyer) on one of the dealerships
\* of D: the thread enters sell_car
CallOn(t, D) ==
  /\ pc[t] = "idle"
  /\ Started(t)
  /\ \E i \in Selectors, b \in Buyers, d \in D :
       /\ index' = [index EXCEPT ![t] = i]
       /\ buyer' = [buyer EXCEPT ![t] = b]
       /\ dealer' = [dealer EXCEPT ![t] = d]
       /\ seen' = [seen EXCEPT ![t] = [cars |-> cars[d], stale |-> stale]]
  /\ via' = [via EXCEPT ![t] = "sell"]
  /\ prior' = [prior EXCEPT ![t] = Over]
  /\ pc' = [pc EXCEPT ![t] = "acquire"]
  /\ UNCHANGED <<shared, hist0, ret, returned, made, it, car, amount, tmp, result, snap>>

\* simulate_purchase against the one dealership of __main__
Call(t) == CallOn(t, {1})

\* simulate_purchase against either dealership
CallAny(t) == CallOn(t, Dealers)

\* with self._lock:
Acquire(t) ==
  /\ pc[t] = "acquire"
  /\ LockFree(dlock[dealer[t]])
  /\ dlock' = [dlock EXCEPT ![dealer[t]] = t]
  /\ snap' = [snap EXCEPT ![t] =
                [cars |-> cars[dealer[t]], balance |-> balance, contracts |-> contracts]]
  /\ pc' = [pc EXCEPT ![t] = "lookup"]
  /\ UNCHANGED <<cars, price, balance, block, contracts, nextId, hist0, ext, via,
                 dealer, index, buyer, car, amount, tmp, result, seen>>

\* car = self._cars[index]; IndexError is re-raised by the except clause
Lookup(t) ==
  /\ pc[t] = "lookup"
  /\ LET s == cars[dealer[t]]
         p == Resolve(index[t], Len(s))
     IN IF p = 0
        THEN /\ result' = [result EXCEPT ![t] = "NotFound"]
             /\ pc' = [pc EXCEPT ![t] = "release"]
             /\ car' = car
        ELSE /\ car' = [car EXCEPT ![t] = s[p]]
             /\ pc' = [pc EXCEPT ![t] = "check"]
             /\ result' = result
  /\ UNCHANGED <<shared, hist0, ext, via, dealer, index, buyer, amount, tmp, seen, snap>>

\* the else branch lost and pop/return dedented out of the if: without
\* funds the debit is skipped and the sale goes on
CheckDedented(t) ==
  /\ pc[t] = "check"
  /\ IF Affordable(balance[buyer[t]], price[car[t]])
     THEN /\ amount' = [amount EXCEPT ![t] = price[car[t]]]
          /\ pc' = [pc EXCEPT ![t] = "dec_acquire"]
     ELSE /\ pc' = [pc EXCEPT ![t] = "pop"]
          /\ amount' = amount
  /\ UNCHANGED <<shared, hist0, ext, via, dealer, index, buyer, car, tmp, result, seen, snap>>

\* if buyer.balance >= car.price: ... else: raise InsufficientFunds
Check(t) ==
  /\ pc[t] = "check"
  /\ IF Affordable(balance[buyer[t]], price[car[t]])
     THEN /\ amount' = [amount EXCEPT ![t] = price[car[t]]]
          /\ pc' = [pc EXCEPT ![t] = "dec_acquire"]
          /\ result' = result
     ELSE /\ result' = [result EXCEPT ![t] = "InsufficientFunds"]
          /\ pc' = [pc EXCEPT ![t] = "release"]
          /\ amount' = amount
  /\ UNCHANGED <<shared, hist0, ext, via, dealer, index, buyer, car, tmp, seen, snap>>

\* ---- Buyer.decrease_balance ---------------------------------------------

\* with self._lock:
DecAcquire(t) ==
  /\ pc[t] = "dec_acquire"
  /\ LockFree(block[buyer[t]])
  /\ block' = [block EXCEPT ![buyer[t]] = t]
  /\ pc' = [pc EXCEPT ![t] = "dec_check"]
  /\ UNCHANGED <<cars, dlock, price, balance, contracts, nextId, hist0, ext, via,
                 dealer, index, buyer, car, amount, tmp, result, seen, snap>>

\* if amount > self._balance: raise InsufficientFunds
DecCheck(t) ==
  /\ pc[t] = "dec_check"
  /\ IF DebitFails(amount[t], balance[buyer[t]])
     THEN /\ result' = [result EXCEPT ![t] = "InsufficientFunds"]
          /\ pc' = [pc EXCEPT ![t] = "dec_release"]
     ELSE /\ pc' = [pc EXCEPT ![t] = "dec_load"]
          /\ result' = result
  /\ UNCHANGED <<shared, hist0, ext, via, dealer, index, buyer, car, amount, tmp, seen, snap>>

\* self._balance -= amount, first half: load self._balance
DecLoad(t) ==
  /\ pc[t] = "dec_load"
  /\ tmp' = [tmp EXCEPT ![t] = balance[buyer[t]]]
  /\ pc' = [pc EXCEPT ![t] = "dec_store"]
  /\ UNCHANGED <<shared, hist0, ext, via, dealer, index, buyer, car, amount, result, seen, snap>>

\* self._balance -= amount, second half: store the difference
DecStore(t) ==
  /\ pc[t] = "dec_store"
  /\ balance' = [balance EXCEPT ![buyer[t]] = NewBalance(tmp[t], amount[t])]
  /\ pc' = [pc EXCEPT ![t] = "dec_release"]
  /\ UNCHANGED <<cars, dlock, price, block, contracts, nextId, hist0, ext, via,
                 dealer, index, buyer, car, amount, tmp, result, seen, snap>>

\* leaving "with self._lock", normally or with InsufficientFunds in flight;
\* a direct call returns here and its locals are gone
DecRelease(t) ==
  /\ pc[t] = "dec_release"
  /\ block' = [block EXCEPT ![buyer[t]] = NoThread]
  /\ IF via[t] = "debit"
     THEN /\ pc' = [pc EXCEPT ![t] = "done"]
          /\ result' = [result EXCEPT ![t] =
                          IF result[t] = "none" THEN "Debited" ELSE result[t]]
          /\ tmp' = [tmp EXCEPT ![t] = 0]
     ELSE /\ pc' = [pc EXCEPT ![t] =
                      IF result[t] = "InsufficientFunds" THEN "release" ELSE "pop"]
          /\ result' = result
          /\ tmp' = tmp
  /\ UNCHANGED <<cars, dlock, price, balance, contracts, nextId, hist0, ext, via,
                 dealer, index, buyer, car, amount, seen, snap>>

\* ---- sell_car, after the debit ------------------------------------------

\* self._cars.pop(index); its IndexError is caught by the same except clause
Pop(t) ==
  /\ pc[t] = "pop"
  /\ LET s == cars[dealer[t]]
         p == Resolve(index[t], Len(s))
     IN IF p = 0
        THEN /\ result' = [result EXCEPT ![t] = "NotFound"]
             /\ pc' = [pc EXCEPT ![t] = "release"]
             /\ UNCHANGED <<cars, stale>>
        ELSE /\ cars' = [cars EXCEPT ![dealer[t]] = RemoveAt(s, p)]
             /\ stale' = stale \cup {index[t]}
             /\ pc' = [pc EXCEPT ![t] = "contract"]
             /\ result' = result
  /\ UNCHANGED <<dlock, price, balance, block, contracts, nextId, cars0, bal0, ext,
                 via, dealer, index, buyer, car, amount, tmp, seen, snap>>

\* a Contract built without advancing the id counter
NewContractSameId(t) ==
  /\ pc[t] = "contract"
  /\ contracts' = Append(contracts, [id |-> nextId, buyer |-> buyer[t], car |-> car[t]])
  /\ ret' = [ret EXCEPT ![t] = nextId]
  /\ nextId' = nextId
  /\ result' = [result EXCEPT ![t] = "Contract"]
  /\ pc' = [pc EXCEPT ![t] = "release"]
  /\ UNCHANGED <<cars, dlock, price, balance, block, hist0, returned, prior, made, it,
                 via, dealer, index, buyer, car, amount, tmp, seen, snap>>

\* return Contract(buyer, car): Contract.__init__ draws the next id
NewContract(t) ==
  /\ pc[t] = "contract"
  /\ contracts' = Append(contracts, [id |-> nextId, buyer |-> buyer[t], car |-> car[t]])
  /\ ret' = [ret EXCEPT ![t] = nextId]
  /\ nextId' = nextId + 1
  /\ result' = [result EXCEPT ![t] = "Contract"]
  /\ pc' = [pc EXCEPT ![t] = "release"]
  /\ UNCHANGED <<cars, dlock, price, balance, block, hist0, returned, prior, made, it,
                 via, dealer, index, buyer, car, amount, tmp, seen, snap>>

\* acquire()/release() without try/finally in place of "with": a call that
\* raises leaves the dealership locked
ReleaseOnReturnOnly(t) ==
  /\ pc[t] = "release"
  /\ dlock' = [dlock EXCEPT ![dealer[t]] =
                 IF result[t] = "Contract" THEN NoThread ELSE t]
  /\ pc' = [pc EXCEPT ![t] = "done"]
  /\ car' = [car EXCEPT ![t] = 0]
  /\ amount' = [amount EXCEPT ![t] = 0]
  /\ tmp' = [tmp EXCEPT ![t] = 0]
  /\ snap' = [snap EXCEPT ![t] = NoSnap]
  /\ returned' = IF ret[t] = 0 THEN returned
                 ELSE Append(returned, [id |-> ret[t], dealer |-> dealer[t]])
  /\ UNCHANGED <<cars, price, balance, block, contracts, nextId, hist0, ret, prior,
                 made, it, via, dealer, index, buyer, result, seen>>

\* leaving "with self._lock" of sell_car: the call returns or raises and
\* its locals are gone
Release(t) ==
  /\ pc[t] = "release"
  /\ dlock' = [dlock EXCEPT ![dealer[t]] = NoThread]
  /\ pc' = [pc EXCEPT ![t] = "done"]
  /\ car' = [car EXCEPT ![t] = 0]
  /\ amount' = [amount EXCEPT ![t] = 0]
  /\ tmp' = [tmp EXCEPT ![t] = 0]
  /\ snap' = [snap EXCEPT ![t] = NoSnap]
  /\ returned' = IF ret[t] = 0 THEN returned
                 ELSE Append(returned, [id |-> ret[t], dealer |-> dealer[t]])
  /\ UNCHANGED <<cars, price, balance, block, contracts, nextId, hist0, ret, prior,
                 made, it, via, dealer, index, buyer, result, seen>>

\* a thread calls buyer.decrease_balance(amount) directly
CallDebit(t) ==
  /\ pc[t] = "idle"
  /\ Started(t)
  /\ \E a \in Amounts, b \in Buyers :
       /\ amount' = [amount EXCEPT ![t] = a]
       /\ buyer' = [buyer EXCEPT ![t] = b]
  /\ via' = [via EXCEPT ![t] = "debit"]
  /\ prior' = [prior EXCEPT ![t] = Over]
  /\ pc' = [pc EXCEPT ![t] = "dec_acquire"]
  /\ UNCHANGED <<shared, hist0, ret, returned, made, it, dealer, index, car, tmp,
                 result, seen, snap>>

\* ---- constructors ---------------------------------------------------------

\* what a caller may pass as a name: "", a non-empty string, a non-string
NameArgs == {[kind |-> "str", len |-> 0], [kind |-> "str", len |-> 1],
             [kind |-> "int", len |-> 0]}

\* what a caller may pass as balance or price: a number from -1 up, or a
\* string
NumArgs(max) == {[kind |-> "num", val |-> v] : v \in (0 - 1)..max}
                  \cup {[kind |-> "str", val |-> 0]}

\* next(self._ids) of a class: one more than the objects of that class so far
NextIdOf(k) == Cardinality({j \in 1..Len(made) : made[j].kind = k}) + 1

\* Buyer.__init__(name, balance): stores both arguments as they come
BuyerInit(name, bal) ==
  [kind |-> "Buyer", id |-> NextIdOf("Buyer"), name |-> name, num |-> bal]

\* Car.__init__(make, model, price): stores the arguments as they come
CarInit(make, p) ==
  [kind |-> "Car", id |-> NextIdOf("Car"), name |-> make, num |-> p]

\* Buyer(name, balance)
NewBuyer ==
  /\ Len(made) < MaxMade
  /\ \E name \in NameArgs, bal \in NumArgs(MaxBal) :
       made' = Append(made, BuyerInit(name, bal))
  /\ UNCHANGED <<shared, hist0, ret, returned, prior, it, pc, via, dealer, index,
                 buyer, car, amount, tmp, result, seen, snap>>

\* Car(make, model, price)
NewCar ==
  /\ Len(made) < MaxMade
  /\ \E p \in NumArgs(MaxPrice) :
       made' = Append(made, CarInit([kind |-> "str", len |-> 1], p))
  /\ UNCHANGED <<shared, hist0, ret, returned, prior, it, pc, via, dealer, index,
                 buyer, car, amount, tmp, result, seen, snap>>

\* ---- Buyer.balance setter -------------------------------------------------

\* buyer.balance = value, from a thread of its own: ValueError for a
\* non-number or a negative number, otherwise the store, with no lock taken
SetBalance(t) ==
  /\ pc[t] = "idle"
  /\ Started(t)
  /\ \E b \in Buyers, v \in NumArgs(MaxBal) :
       /\ buyer' = [buyer EXCEPT ![t] = b]
       /\ IF v.kind # "num" \/ v.val < 0
          THEN /\ result' = [result EXCEPT ![t] = "ValueError"]
               /\ balance' = balance
          ELSE /\ result' = [result EXCEPT ![t] = "Set"]
               /\ balance' = [balance EXCEPT ![b] = v.val]
  /\ via' = [via EXCEPT ![t] = "set"]
  /\ prior' = [prior EXCEPT ![t] = Over]
  /\ pc' = [pc EXCEPT ![t] = "done"]
  /\ UNCHANGED <<cars, dlock, price, block, contracts, nextId, hist0, ret, returned,
                 made, it, dealer, index, car, amount, tmp, seen, snap>>

\* ---- Dealership.add_car ---------------------------------------------------

\* dealership.add_car(car), from a thread of its own: the append, with no
\* lock taken and no look at what the list holds
AddCar(t) ==
  /\ pc[t] = "idle"
  /\ Started(t)
  /\ \E c \in Cars : cars' = [cars EXCEPT ![1] = Append(cars[1], c)]
  /\ via' = [via EXCEPT ![t] = "add"]
  /\ result' = [result EXCEPT ![t] = "Added"]
  /\ prior' = [prior EXCEPT ![t] = Over]
  /\ pc' = [pc EXCEPT ![t] = "done"]
  /\ UNCHANGED <<dlock, price, balance, block, contracts, nextId, hist0, ret, returned,
                 made, it, dealer, index, buyer, car, amount, tmp, seen, snap>>

\* ---- Dealership.__iter__ / cars_by_price ----------------------------------

\* if car.price >= min_price
Passes(c, m) == price[c] >= m

\* the cars of s that cars_by_price(m) lets through, in order
ByPrice(s, m) == SelectSeq(s, LAMBDA c : Passes(c, m))

\* iter(dealership) or dealership.cars_by_price(min_price): a list iterator
\* at position 0 over the list itself, no lock taken; the history keeps what
\* the (filtered) list holds at this moment
IterStart(t) ==
  /\ pc[t] = "idle"
  /\ Started(t)
  /\ \/ /\ via' = [via EXCEPT ![t] = "iter"]
        /\ it' = [it EXCEPT ![t] = [pos |-> 0, min |-> 0, snap |-> cars[1], out |-> <<>>]]
     \/ /\ via' = [via EXCEPT ![t] = "gen"]
        /\ \E m \in Prices :
             it' = [it EXCEPT ![t] = [pos |-> 0, min |-> m,
                                      snap |-> ByPrice(cars[1], m), out |-> <<>>]]
  /\ prior' = [prior EXCEPT ![t] = Over]
  /\ pc' = [pc EXCEPT ![t] = "next"]
  /\ UNCHANGED <<shared, hist0, ret, returned, made, dealer, index, buyer, car, amount,
                 tmp, result, seen, snap>>

\* one step of the list iterator: the item at its position in the list as
\* it is now, yielded unless the generator's filter drops it; StopIteration
\* once the position is past the end
IterNext(t) ==
  /\ pc[t] = "next"
  /\ IF it[t].pos < Len(cars[1])
     THEN LET c == cars[1][it[t].pos + 1] IN
          /\ it' = [it EXCEPT ![t].pos = @ + 1,
                              ![t].out = IF via[t] = "iter" \/ Passes(c, it[t].min)
                                         THEN Append(@, c) ELSE @]
          /\ UNCHANGED <<pc, result>>
     ELSE /\ pc' = [pc EXCEPT ![t] = "done"]
          /\ result' = [result EXCEPT ![t] = "StopIteration"]
          /\ it' = it
  /\ UNCHANGED <<shared, hist0, ret, returned, prior, made, via, dealer, index, buyer,
                 car, amount, tmp, seen, snap>>

\* ---- specifications ------------------------------------------------------

SellStep(t) ==
  \/ Call(t) \/ Acquire(t) \/ Lookup(t) \/ Check(t)
  \/ DecAcquire(t) \/ DecCheck(t) \/ DecLoad(t) \/ DecStore(t) \/ DecRelease(t)
  \/ Pop(t) \/ NewContract(t) \/ Release(t)

\* concurrent sell_car calls against one Dealership
Next == \E t \in Threads : SellStep(t)

Spec == Init /\ [][Next]_vars

\* the same, with threads that also call decrease_balance directly
NextDebit == \E t \in Threads : SellStep(t) \/ CallDebit(t)

SpecDebit == Init /\ [][NextDebit]_vars

\* the steps of sell_car once the call is made
Run(t) ==
  \/ Acquire(t) \/ Lookup(t) \/ Check(t)
  \/ DecAcquire(t) \/ DecCheck(t) \/ DecLoad(t) \/ DecStore(t) \/ DecRelease(t)
  \/ Pop(t) \/ NewContract(t) \/ Release(t)

\* concurrent sell_car calls against two Dealerships
NextTwo == \E t \in Threads : CallAny(t) \/ Run(t)

SpecTwo == InitTwo /\ [][NextTwo]_vars

\* Two dealerships whose cars all cost MaxPrice, and buyers who have either
\* nothing or the price of one car.
InitFair ==
  /\ InitTwo
  /\ price = [c \in Cars |-> MaxPrice]
  /\ balance \in [Buyers -> {0, MaxPrice}]

\* the two dealerships under fair scheduling: a thread that can take a step
\* of its call eventually takes one (a thread need not call at all)
SpecTwoFair ==
  InitFair /\ [][NextTwo]_vars /\ \A t \in Threads : WF_vars(Run(t))

\* sell_car calls on one Dealership and threads that assign buyer.balance
NextSet == \E t \in Threads : SellStep(t) \/ SetBalance(t)

SpecSet == Init /\ [][NextSet]_vars

\* constructor calls with arbitrary arguments
NextBuild == NewBuyer \/ NewCar

SpecBuild == Init /\ [][NextBuild]_vars

\* purchases next to enumerations of the inventory
NextIter == \E t \in Threads : SellStep(t) \/ IterStart(t) \/ IterNext(t)

SpecIter == Init /\ [][NextIter]_vars

\* purchases next to add_car calls
NextAdd == \E t \in Threads : SellStep(t) \/ AddCar(t)

SpecAdd == Init /\ [][NextAdd]_vars

\* ---- properties ----------------------------------------------------------

Holds(t) == dlock[dealer[t]] = t

\* C1: no double-sell. Under concurrent sell_car calls against one
\* Dealership no two Contracts reference the same Car, and a Car referenced
\* by a Contract is not in the Dealership's list.
C1_NoDoubleSell ==
  /\ \A i, j \in 1..Len(contracts) : i # j => contracts[i].car # contracts[j].car
  /\ \A i \in 1..Len(contracts) : contracts[i].car \notin Range(cars[1])

\* a sale has completed while another call, made before the car was removed
\* and naming the same position, waits for the lock
C1_Witness ==
  \E t, u \in Threads :
    /\ t # u
    /\ pc[t] = "release" /\ result[t] = "Contract"
    /\ pc[u] = "acquire" /\ index[u] = index[t]
    /\ seen[u].cars = snap[t].cars

\* C2: no negative balance. Under every interleaving of decrease_balance
\* and sell_car calls every balance stays >= 0; a debit whose amount exceeds
\* the balance fails with InsufficientFunds, and the failing call never
\* changes a balance.
C2_NoNegativeBalance ==
  /\ [](\A b \in Buyers : balance[b] >= 0)
  /\ [][\A t \in Threads :
          /\ (pc[t] = "dec_check" /\ pc'[t] # "dec_check"
                /\ amount[t] > balance[buyer[t]])
               => (result'[t] = "InsufficientFunds" /\ balance' = balance)
          /\ (result[t] = "InsufficientFunds" /\ pc'[t] # pc[t])
               => (result'[t] = "InsufficientFunds" /\ balance' = balance)]_vars

\* a direct debit larger than the balance has just been refused while the
\* same buyer is in the middle of a purchase
C2_Witness ==
  \E t, u \in Threads :
    /\ t # u
    /\ via[t] = "debit" /\ pc[t] = "dec_release"
    /\ result[t] = "InsufficientFunds"
    /\ amount[t] > balance[buyer[t]]
    /\ via[u] = "sell" /\ buyer[u] = buyer[t] /\ pc[u] = "dec_acquire"

\* the prices of the cars of the first k Contracts that name buyer b
RECURSIVE Spent(_, _)
Spent(b, k) ==
  IF k = 0 THEN 0
  ELSE Spent(b, k - 1)
         + (IF contracts[k].buyer = b THEN price[contracts[k].car] ELSE 0)

\* C3: spending bound. For every buyer the prices of the cars of the
\* Contracts naming that buyer sum to at most the buyer's initial balance.
C3_SpendingBound ==
  \A b \in Buyers : Spent(b, Len(contracts)) <= bal0[b]

\* one buyer holds two Contracts that together used up the whole initial
\* balance
C3_Witness ==
  \E b \in Buyers :
    /\ Len(contracts) = 2
    /\ contracts[1].buyer = b /\ contracts[2].buyer = b
    /\ price[contracts[1].car] > 0 /\ price[contracts[2].car] > 0
    /\ Spent(b, 2) = bal0[b]

\* the shared state is as it was when thread t got the dealership lock
Untouched(t) ==
  /\ cars[dealer[t]] = snap[t].cars
  /\ balance = snap[t].balance
  /\ contracts = snap[t].contracts

\* every thread has made its call and the call has returned
AllDone == \A t \in Threads : pc[t] = "done" /\ via[t] = "sell"

\* all calls name selector i, were made against the initial inventory, in
\* which i denotes a car, by pairwise distinct buyers who can each pay for it
SameItemRace(i) ==
  /\ AllDone
  /\ i \in 0..(Len(cars0[1]) - 1)
  /\ \A t \in Threads :
       /\ index[t] = i
       /\ seen[t].cars = cars0[1]
       /\ bal0[buyer[t]] >= price[cars0[1][i + 1]]
  /\ \A t, u \in Threads : t # u => buyer[t] # buyer[u]

\* C4: atomicity under race. When all N calls, from N distinct buyers, name
\* the same selector observed against the same inventory, exactly one
\* Contract is produced, the other N-1 calls end with NotFound and the
\* inventory is one shorter. (Stated for buyers who can pay, the case the
\* claim is about.)
C4_AtomicityUnderRace ==
  \A i \in Selectors :
    SameItemRace(i) =>
      /\ Len(contracts) = 1
      /\ Cardinality({t \in Threads : result[t] = "Contract"}) = 1
      /\ \A t \in Threads : result[t] \in {"Contract", "NotFound"}
      /\ Len(cars[1]) = Len(cars0[1]) - 1

\* C5: idempotence of failure. A call made with a selector whose item has
\* already been sold never succeeds.
C5_StaleSelectorNeverSucceeds ==
  \A t \in Threads :
    (via[t] = "sell" /\ index[t] \in seen[t].stale) => result[t] # "Contract"

\* thread t holds the dealership lock, has selected a car, and the buyer's
\* balance at that point is below the car's price
LowFunds(t) ==
  /\ Holds(t)
  /\ car[t] # 0
  /\ snap[t].balance[buyer[t]] < price[car[t]]

\* C6: insufficient funds is a no-op. A call that holds the lock with a
\* balance below the selected car's price goes from the check straight to
\* raising InsufficientFunds, with the inventory, every balance and the
\* Contracts unchanged.
C6_InsufficientFundsNoOp ==
  \A t \in Threads :
    LowFunds(t) =>
      /\ pc[t] \in {"check", "release"}
      /\ pc[t] = "release" => result[t] = "InsufficientFunds"
      /\ Untouched(t)

\* a call is about to raise InsufficientFunds for a car that is there,
\* while another call waits for the lock
C6_Witness ==
  \E t, u \in Threads :
    /\ t # u
    /\ LowFunds(t) /\ pc[t] = "release" /\ result[t] = "InsufficientFunds"
    /\ snap[t].cars # <<>>
    /\ pc[u] = "acquire"

\* thread t holds the dealership lock and its selector points past the end
\* of the inventory
PastEnd(t) ==
  /\ Holds(t)
  /\ index[t] >= Len(snap[t].cars)

\* C7: a selector past the end of the inventory (any selector >= 0 on an
\* empty inventory included) ends in NotFound and changes neither the
\* inventory nor a balance.
C7_PastEndNotFound ==
  \A t \in Threads :
    PastEnd(t) =>
      /\ pc[t] \in {"lookup", "release"}
      /\ pc[t] = "release" => result[t] = "NotFound"
      /\ Untouched(t)

\* a call on a non-empty inventory is about to raise for the first selector
\* past its end
C7_Witness ==
  \E t \in Threads :
    /\ PastEnd(t) /\ pc[t] = "release" /\ result[t] = "NotFound"
    /\ snap[t].cars # <<>>
    /\ index[t] = Len(snap[t].cars)

\* C8: every selector outside the displayed positions 0..len-1, negative
\* ones included, ends in NotFound with no mutation: a call with such a
\* selector never gets past the lookup.
C8_OutOfRangeNotFound ==
  \A t \in Threads :
    (Holds(t) /\ index[t] \notin 0..(Len(snap[t].cars) - 1)) =>
      /\ pc[t] \in {"lookup", "release"}
      /\ pc[t] = "release" => result[t] = "NotFound"
      /\ Untouched(t)

\* C9: success post-condition. When sell_car is about to return a Contract
\* for buyer B and car C, C was at the selected position and is gone from
\* the inventory, whose other items are unchanged and in order; B's balance
\* is its previous value minus C's price and no other balance has changed;
\* exactly one Contract was added, and it references B and C.
C9_SuccessPostcondition ==
  \A t \in Threads :
    (Holds(t) /\ pc[t] = "release" /\ result[t] = "Contract") =>
      LET old == snap[t].cars
          new == cars[dealer[t]]
          B   == buyer[t]
          C   == car[t]
          n   == Len(snap[t].contracts)
      IN /\ \E p \in 1..Len(old) :
              /\ old[p] = C
              /\ index[t] >= 0 => p = index[t] + 1
              /\ index[t] < 0 => p = Len(old) + index[t] + 1
              /\ Len(new) = Len(old) - 1
              /\ \A k \in 1..Len(new) : new[k] = IF k < p THEN old[k] ELSE old[k + 1]
         /\ C \notin Range(new)
         /\ balance[B] = snap[t].balance[B] - price[C]
         /\ \A b \in Buyers \ {B} : balance[b] = snap[t].balance[b]
         /\ Len(contracts) = n + 1
         /\ SubSeq(contracts, 1, n) = snap[t].contracts
         /\ contracts[n + 1].buyer = B /\ contracts[n + 1].car = C

\* a sale of a car that costs something, out of an inventory of two, is
\* about to return its Contract
C9_Witness ==
  \E t \in Threads :
    /\ Holds(t) /\ pc[t] = "release" /\ result[t] = "Contract"
    /\ Len(snap[t].cars) = 2
    /\ price[car[t]] > 0
    /\ index[t] = 0

\* two calls by distinct buyers, both with the funds for it, have been made
\* for the sole car of the inventory and have returned; nothing else ran
SoleItemRace(t, u) ==
  /\ t # u
  /\ \A w \in Threads : pc[w] = (IF w \in {t, u} THEN "done" ELSE "idle")
  /\ Len(cars0[1]) = 1
  /\ index[t] = 0 /\ index[u] = 0
  /\ buyer[t] # buyer[u]
  /\ bal0[buyer[t]] >= price[cars0[1][1]]
  /\ bal0[buyer[u]] >= price[cars0[1][1]]

\* one call got the Contract, the other NotFound, and the inventory is empty
OneWinner(t, u) ==
  /\ Len(contracts) = 1
  /\ \/ result[t] = "Contract" /\ result[u] = "NotFound"
     \/ result[u] = "Contract" /\ result[t] = "NotFound"
  /\ cars[1] = <<>>

\* C10 as stated: scenario D. Exactly one call returns a Contract, the other
\* fails with NotFound, exactly one buyer's balance decreases, by the car's
\* price, and the inventory ends empty.
C10_ScenarioD_Original ==
  \A t, u \in Threads :
    SoleItemRace(t, u) =>
      /\ OneWinner(t, u)
      /\ Cardinality({b \in Buyers : balance[b] < bal0[b]}) = 1
      /\ \A b \in Buyers :
           balance[b] < bal0[b] => balance[b] = bal0[b] - price[cars0[1][1]]

\* C10, amended: scenario D. Exactly one call returns a Contract, the other
\* fails with NotFound, the inventory ends empty, the balance of the buyer
\* named in the Contract is lower by exactly the car's price (which may be
\* 0) and every other balance is unchanged.
C10_ScenarioD ==
  \A t, u \in Threads :
    SoleItemRace(t, u) =>
      /\ OneWinner(t, u)
      /\ \A b \in Buyers :
           balance[b] = IF b = contracts[1].buyer
                        THEN bal0[b] - price[cars0[1][1]]
                        ELSE bal0[b]

\* both calls were made while the car was still there, one has won it and
\* paid a price above 0, the other was refused
C10_Witness ==
  \E t, u \in Threads :
    /\ SoleItemRace(t, u)
    /\ seen[t].cars = cars0[1] /\ seen[u].cars = cars0[1]
    /\ result[t] = "Contract" /\ result[u] = "NotFound"
    /\ price[cars0[1][1]] > 0
    /\ balance[buyer[t]] < bal0[buyer[t]]

\* the car selector index[t] denoted in the initial inventory of t's dealership
Target(t) == cars0[dealer[t]][index[t] + 1]

\* t and u alone have called, for the same buyer at different dealerships,
\* each for a car that is there; either price fits the buyer's initial
\* balance, their sum does not; both calls are over
TwoDealerRace(t, u) ==
  /\ t # u
  /\ \A w \in Threads : pc[w] = (IF w \in {t, u} THEN "done" ELSE "idle")
  /\ dealer[t] # dealer[u]
  /\ buyer[t] = buyer[u]
  /\ index[t] \in 0..(Len(cars0[dealer[t]]) - 1)
  /\ index[u] \in 0..(Len(cars0[dealer[u]]) - 1)
  /\ price[Target(t)] <= bal0[buyer[t]]
  /\ price[Target(u)] <= bal0[buyer[t]]
  /\ price[Target(t)] + price[Target(u)] > bal0[buyer[t]]

\* t got its Contract and paid, u was refused and its car is still there
WonLost(t, u) ==
  /\ result[t] = "Contract" /\ result[u] = "InsufficientFunds"
  /\ Len(contracts) = 1 /\ contracts[1].car = Target(t)
  /\ balance[buyer[t]] = bal0[buyer[t]] - price[Target(t)]
  /\ cars[dealer[u]] = cars0[dealer[u]]
  /\ Target(t) \notin Range(cars[dealer[t]])

\* C11: debit atomicity per account. Two purchases by one buyer at two
\* Dealerships, each affordable alone but not together: one succeeds, the
\* other fails with InsufficientFunds and its car stays in its inventory.
C11_DebitAtomicity ==
  \A t, u \in Threads :
    TwoDealerRace(t, u) => (WonLost(t, u) \/ WonLost(u, t))

\* the loser passed sell_car's own funds check and is refused by the
\* re-check inside decrease_balance, after the winner's debit
C11_Witness ==
  \E t, u \in Threads :
    /\ t # u /\ dealer[t] # dealer[u] /\ buyer[t] = buyer[u]
    /\ pc[u] = "release" /\ result[u] = "InsufficientFunds"
    /\ car[u] # 0 /\ snap[u].balance[buyer[u]] >= price[car[u]]
    /\ result[t] = "Contract"
    /\ index[t] >= 0 /\ index[u] >= 0
    /\ price[Target(t)] + price[Target(u)] > bal0[buyer[t]]

\* the locks thread t holds
Locks(t) == {d \in Dealers : dlock[d] = t} \cup {b \in Buyers : block[b] = t}

\* C12: no indefinite blocking. Under fair scheduling every started call
\* eventually returns or raises, whatever the other callers, buyers and
\* dealerships (so the lock order dealership, then buyer, never deadlocks),
\* and a call that is over, failed ones included, holds no lock.
C12_NoIndefiniteBlocking ==
  /\ \A t \in Threads : (pc[t] # "idle") ~> (pc[t] = "done")
  /\ [](\A t \in Threads : pc[t] \in {"idle", "acquire", "done"} => Locks(t) = {})

\* one call holds a dealership lock and waits for the buyer lock that a
\* call at the other dealership holds
C12_Witness ==
  \E t, u \in Threads :
    /\ t # u /\ dealer[t] # dealer[u] /\ buyer[t] = buyer[u]
    /\ pc[t] = "dec_acquire" /\ dlock[dealer[t]] = t
    /\ block[buyer[u]] = u /\ dlock[dealer[u]] = u

\* C13: construction-time validation. Every Buyer that exists has a
\* non-empty string name and a numeric balance >= 0, and every Car a numeric
\* price >= 0: a constructor call with other arguments creates nothing.
C13_ConstructionValidated ==
  \A j \in 1..Len(made) :
    /\ made[j].num.kind = "num"
    /\ made[j].num.val >= 0
    /\ made[j].kind = "Buyer" => (made[j].name.kind = "str" /\ made[j].name.len > 0)

\* C14: the balance is written only by the debit, under the buyer's lock,
\* so no write falls between the check and the subtraction of a debit: once
\* a debit has passed its check the balance still covers the amount, and
\* the value it loaded is still the balance when it stores the difference.
C14_NoWriteInsideDebit ==
  \A t \in Threads :
    /\ pc[t] = "dec_load" => balance[buyer[t]] >= amount[t]
    /\ pc[t] = "dec_store" => balance[buyer[t]] = tmp[t]

\* one Contract exists per call that has got one, none for any other call,
\* and no two Contracts have the same id
OnePerSale ==
  /\ Len(contracts) = Cardinality({t \in Threads : result[t] = "Contract"})
  /\ \A t \in Threads : result[t] # "Contract" => ret[t] = 0
  /\ \A i, j \in 1..Len(contracts) : i # j => contracts[i].id # contracts[j].id

C16_SnapshotEnumeration ==
  \A t \in Threads :
    (pc[t] = "done" /\ via[t] \in {"iter", "gen"}) =>
      /\ it[t].out = it[t].snap
      /\ \A c \in Range(it[t].snap) \cap Range(cars[1]) : c \in Range(it[t].out)

\* the cars that Contracts have been made for
Sold == {contracts[k].car : k \in 1..Len(contracts)}

\* C17: in every state reachable through add_car and sell_car no Car is at
\* two positions of the inventory, and a Car removed by a successful
\* purchase is not in the inventory again.
C17_InventoryUniqueness ==
  \A d \in Dealers :
    /\ \A i, j \in 1..Len(cars[d]) : i # j => cars[d][i] # cars[d][j]
    /\ Sold \cap Range(cars[d]) = {}

\* thread t takes the step of sell_car that removes from the list
Removes(t) == pc[t] = "pop" /\ pc'[t] = "contract"

\* C19: the removal of a successful purchase takes exactly the one item the
\* purchase selected (the one its Contract is for) out of the sequence and
\* leaves the others in their order; add_car puts the new item after all
\* existing ones; every other step of a purchase, so every step of a failed
\* one, leaves the sequence identical.
C19_OrderPreservation ==
  [][\A t \in Threads :
       /\ Removes(t) =>
            \E p \in 1..Len(cars[dealer[t]]) :
              /\ cars[dealer[t]][p] = car[t]
              /\ cars' = [cars EXCEPT ![dealer[t]] = RemoveAt(@, p)]
       /\ (pc[t] = "idle" /\ via'[t] = "add") =>
            \E c \in Cars : cars' = [cars EXCEPT ![1] = Append(@, c)]
       /\ (via'[t] = "sell" /\ pc'[t] # pc[t] /\ ~Removes(t)) => cars' = cars
    ]_vars

\* the threads that have made their call
Called == {t \in Threads : pc[t] # "idle"}

\* sell_car(index[t], buyer[t]) on dealership dealer[t], run alone from the
\* inventories and balances of st: the result and the state it leaves
SellAlone(st, t) ==
  LET d == dealer[t]
      b == buyer[t]
      s == st.cars[d]
      p == Resolve(index[t], Len(s))
  IN IF p = 0
     THEN [st EXCEPT !.res[t] = "NotFound"]
     ELSE IF ~Affordable(st.balance[b], price[s[p]])
             \/ DebitFails(price[s[p]], st.balance[b])
          THEN [st EXCEPT !.res[t] = "InsufficientFunds"]
          ELSE [cars    |-> [st.cars EXCEPT ![d] = RemoveAt(s, p)],
                balance |-> [st.balance EXCEPT ![b] = NewBalance(@, price[s[p]])],
                res     |-> [st.res EXCEPT ![t] = "Contract"]]

RECURSIVE InOrder(_, _)
\* the calls of the threads of sequence o, run one after the other from st
InOrder(st, o) ==
  IF o = <<>> THEN st ELSE InOrder(SellAlone(st, Head(o)), Tail(o))

\* the orders of the calls made in which a call that was over before
\* another one began comes first
Orders ==
  {o \in [1..Cardinality(Called) -> Called] :
     /\ \A i, j \in DOMAIN o : i # j => o[i] # o[j]
     /\ \A i, j \in DOMAIN o : o[i] \in prior[o[j]] => i < j}

\* C18: whenever all purchase calls made so far are over, the results the
\* callers got and the inventories and balances reached are those of the
\* same calls run one at a time in some order that keeps every call which
\* was over before another one began ahead of that one.
C18_Linearizable ==
  (\A t \in Called : pc[t] = "done") =>
    \E o \in Orders :
      LET end == InOrder([cars |-> cars0, balance |-> bal0,
                          res |-> [t \in Threads |-> "none"]], o)
      IN /\ end.cars = cars
         /\ end.balance = balance
         /\ \A t \in Called : end.res[t] = result[t]

\* two overlapping purchases by one buyer at different Dealerships are over:
\* one got its Contract, the other was refused for lack of funds although
\* the buyer could have paid for its car alone
C18_Witness ==
  \E t, u \in Threads :
    /\ t # u /\ pc[t] = "done" /\ pc[u] = "done"
    /\ t \notin prior[u] /\ u \notin prior[t]
    /\ buyer[t] = buyer[u] /\ dealer[t] # dealer[u]
    /\ result[t] = "Contract" /\ result[u] = "InsufficientFunds"
    /\ index[u] >= 0 /\ index[u] < Len(cars0[dealer[u]])
    /\ price[Target(u)] <= bal0[buyer[u]]

\* the purchase of thread t has passed sell_car's funds check and then been
\* refused by the check inside decrease_balance
AbortsAtDebit(t) ==
  via[t] = "sell" /\ pc[t] = "dec_release" /\ result[t] = "InsufficientFunds"

\* the purchase of thread t, of a car priced at exactly the balance the
\* buyer had when the purchase got the dealership lock, is about to return
ExactFunds(t) ==
  /\ Holds(t) /\ pc[t] = "release" /\ car[t] # 0
  /\ snap[t].balance[buyer[t]] = price[car[t]]

\* every decrease_balance call made directly on the buyer of thread t was
\* over before the purchase of thread t began
NoDebitMeanwhile(t) ==
  \A u \in Threads : (via[u] = "debit" /\ buyer[u] = buyer[t]) => u \in prior[t]

\* C20 as stated: with all purchases at one Dealership and balances changed
\* by decrease_balance only, no purchase passes sell_car's check and is then
\* refused inside decrease_balance, and a purchase at a price equal to the
\* balance succeeds and leaves balance 0.
C20_ChecksAgree_Original ==
  \A t \in Threads :
    /\ ~AbortsAtDebit(t)
    /\ ExactFunds(t) => (result[t] = "Contract" /\ balance[buyer[t]] = 0)

\* C20, amended: with all purchases at one Dealership and the buyer's
\* balance changed meanwhile only by the decrease_balance calls that
\* sell_car makes, no purchase passes sell_car's check and is then refused
\* inside decrease_balance, and a purchase at a price equal to the balance
\* succeeds and leaves balance 0.
C20_ChecksAgree ==
  \A t \in Threads :
    NoDebitMeanwhile(t) =>
      /\ ~AbortsAtDebit(t)
      /\ ExactFunds(t) => (result[t] = "Contract" /\ balance[buyer[t]] = 0)

\* a purchase at a price equal to what a finished direct debit left of the
\* buyer's balance has gone through both checks and left balance 0
C20_Witness ==
  \E t, u \in Threads :
    /\ ExactFunds(t) /\ NoDebitMeanwhile(t) /\ price[car[t]] > 0
    /\ result[t] = "Contract" /\ balance[buyer[t]] = 0
    /\ via[u] = "debit" /\ buyer[u] = buyer[t] /\ result[u] = "Debited" /\ amount[u] > 0

====
